---------------------------- MODULE Spec2Model ----------------------------
(***************************************************************************)
(* Model of the external "Executable" transformer of move2kube            *)
(* (package external: Init, DirectoryDetect, Transform, executeDetect).   *)
(*                                                                         *)
(* Representation of Go values.                                            *)
(*  - A Go string that may be a file path is a sequence of tokens: the     *)
(*    path separators are the boundaries between tokens and a leading      *)
(*    token "/" marks a rooted path.  "" is << >>, "/src/a" is             *)
(*    <<"/", "src", "a">>, "a/b" is <<"a", "b">>.                          *)
(*  - Map keys (service names, path roles, config types) are TLA+ strings. *)
(*  - A nilable Go value (map, slice, interface{}) is a tagged record:     *)
(*    [k |-> "nil"], [k |-> "map", m |-> f], [k |-> "slice", l |-> s],     *)
(*    [k |-> "num", n |-> i], [k |-> "str", s |-> tokens].                 *)
(*  - A JSON document is a tagged tree: null, num, str, arr, obj.          *)
(***************************************************************************)
EXTENDS Integers, Sequences, FiniteSets, TLC

(***************************************************************************)
(* Bounds of the model.                                                    *)
(***************************************************************************)
\* longest list of artifacts handed to one Transform call
MaxArtifacts == 2
\* longest list of artifacts a detect command emits for one service
MaxDetectArtifacts == 2
\* the goroutines that call GetContainerEngine and IsDisabled concurrently
MaxCallers == 2

(***************************************************************************)
(* path/filepath: Clean, Join, Rel on token sequences.                     *)
(***************************************************************************)
EmptyStr == << >>

IsRooted(p) == Len(p) > 0 /\ p[1] = "/"

\* the components of p after the root marker
Components(p) == IF IsRooted(p) THEN SubSeq(p, 2, Len(p)) ELSE p

RECURSIVE CleanComponents(_, _, _)
\* one pass of filepath.Clean over the components still to read
CleanComponents(rest, out, rooted) ==
    IF rest = << >> THEN out
    ELSE LET c  == Head(rest)
             tl == Tail(rest)
         IN  CASE c = "."  -> CleanComponents(tl, out, rooted)
               [] c = ".." ->
                    IF Len(out) > 0 /\ out[Len(out)] # ".."
                    THEN CleanComponents(tl, SubSeq(out, 1, Len(out) - 1), rooted)
                    ELSE IF rooted
                         THEN CleanComponents(tl, out, rooted)
                         ELSE CleanComponents(tl, Append(out, ".."), rooted)
               [] OTHER    -> CleanComponents(tl, Append(out, c), rooted)

\* filepath.Clean
Clean(p) ==
    LET out == CleanComponents(Components(p), << >>, IsRooted(p))
    IN  IF IsRooted(p) THEN <<"/">> \o out
        ELSE IF out = << >> THEN <<".">> ELSE out

\* filepath.Join of two elements: empty elements are ignored, the rest is
\* joined with a separator and cleaned; all empty gives ""
Join(a, b) ==
    IF a = EmptyStr /\ b = EmptyStr THEN EmptyStr
    ELSE IF a = EmptyStr THEN Clean(b)
    ELSE Clean(a \o Components(b))

RECURSIVE CommonPrefixLen(_, _)
CommonPrefixLen(b, t) ==
    IF b = << >> \/ t = << >> \/ Head(b) # Head(t) THEN 0
    ELSE 1 + CommonPrefixLen(Tail(b), Tail(t))

RECURSIVE Ups(_)
Ups(n) == IF n = 0 THEN << >> ELSE <<"..">> \o Ups(n - 1)

\* filepath.Rel(basepath, targpath): [path |-> tokens, err |-> BOOLEAN]
Rel(basepath, targpath) ==
    LET base == Clean(basepath)
        targ == Clean(targpath)
        b    == IF base = <<".">> THEN << >> ELSE Components(base)
        t    == Components(targ)
        c    == CommonPrefixLen(b, t)
    IN  IF targ = base THEN [path |-> <<".">>, err |-> FALSE]
        ELSE IF IsRooted(base) # IsRooted(targ)
             THEN [path |-> EmptyStr, err |-> TRUE]
        ELSE IF c < Len(b) /\ c < Len(t) /\ b[c + 1] = ".."
             THEN [path |-> EmptyStr, err |-> TRUE]
        ELSE [path |-> Ups(Len(b) - c) \o SubSeq(t, c + 1, Len(t)), err |-> FALSE]

(***************************************************************************)
(* Go values.                                                              *)
(***************************************************************************)
Nil == [k |-> "nil"]
GoMap(f) == [k |-> "map", m |-> f]
GoSlice(s) == [k |-> "slice", l |-> s]
GoNum(i) == [k |-> "num", n |-> i]
GoStr(s) == [k |-> "str", s |-> s]
NoEntries == [x \in {} |-> Nil]

\* len(m) of a map, 0 for a nil map
MapLen(v) == IF v.k = "map" THEN Cardinality(DOMAIN v.m) ELSE 0
\* m[key] of a map: the zero value when the map is nil or has no such key
MapGet(v, key, zero) == IF v.k = "map" /\ key \in DOMAIN v.m THEN v.m[key] ELSE zero
\* the elements of a slice, none for a nil slice
Elems(v) == IF v.k = "slice" THEN v.l ELSE << >>

\* artifacts.ServiceDirPathType
ServiceDirPathType == "serviceDir"
\* TemplateConfigType
TemplateConfigType == "TemplateConfig"
\* transformertypes.TemplatePathMappingType
TemplatePathMappingType == <<"template">>
\* transformertypes.SourcePathMappingType
SourcePathMappingType == <<"source">>
\* common.DefaultSourceDir
DefaultSourceDir == <<"source">>

\* the zero value of transformertypes.Artifact
ZeroArtifact == [Paths |-> Nil, Configs |-> Nil]
\* the zero value of transformertypes.PathMapping
ZeroPathMapping ==
    [Type |-> EmptyStr, SrcPath |-> EmptyStr, DestPath |-> EmptyStr, TemplateConfig |-> Nil]
\* the zero value of transformertypes.TransformOutput
ZeroTransformOutput == [PathMappings |-> Nil, CreatedArtifacts |-> Nil]

(***************************************************************************)
(* JSON documents and encoding/json.Unmarshal.                             *)
(* A decoder returns [v |-> the Go value, err |-> whether Unmarshal        *)
(* reports an UnmarshalTypeError].  As in encoding/json, a value of the    *)
(* wrong JSON type leaves its target at the zero value, is recorded as the *)
(* error, and decoding of the rest of the document goes on.                *)
(***************************************************************************)
JNull == [k |-> "null"]
JNum(i) == [k |-> "num", n |-> i]
JStr(s) == [k |-> "str", s |-> s]
JArr(s) == [k |-> "arr", l |-> s]
JObj(f) == [k |-> "obj", o |-> f]
NoMembers == [x \in {} |-> JNull]

RECURSIVE DecodeAny(_)
\* into interface{}: every JSON value decodes, none is a type error
DecodeAny(j) ==
    CASE j.k = "null" -> Nil
      [] j.k = "num"  -> GoNum(j.n)
      [] j.k = "str"  -> GoStr(j.s)
      [] j.k = "arr"  -> GoSlice([i \in 1..Len(j.l) |-> DecodeAny(j.l[i])])
      [] j.k = "obj"  -> GoMap([key \in DOMAIN j.o |-> DecodeAny(j.o[key])])

\* into string
DecodeString(j) ==
    CASE j.k = "str"  -> [v |-> j.s, err |-> FALSE]
      [] j.k = "null" -> [v |-> EmptyStr, err |-> FALSE]
      [] OTHER        -> [v |-> EmptyStr, err |-> TRUE]

\* into []string
DecodeStringSlice(j) ==
    CASE j.k = "null" -> [v |-> Nil, err |-> FALSE]
      [] j.k = "arr"  ->
            [v   |-> GoSlice([i \in 1..Len(j.l) |-> DecodeString(j.l[i]).v]),
             err |-> \E i \in 1..Len(j.l) : DecodeString(j.l[i]).err]
      [] OTHER        -> [v |-> Nil, err |-> TRUE]

\* into map[PathType][]string
DecodePaths(j) ==
    CASE j.k = "null" -> [v |-> Nil, err |-> FALSE]
      [] j.k = "obj"  ->
            [v   |-> GoMap([key \in DOMAIN j.o |-> DecodeStringSlice(j.o[key]).v]),
             err |-> \E key \in DOMAIN j.o : DecodeStringSlice(j.o[key]).err]
      [] OTHER        -> [v |-> Nil, err |-> TRUE]

\* into map[ConfigType]interface{}
DecodeConfigs(j) ==
    CASE j.k = "null" -> [v |-> Nil, err |-> FALSE]
      [] j.k = "obj"  -> [v |-> DecodeAny(j), err |-> FALSE]
      [] OTHER        -> [v |-> Nil, err |-> TRUE]

\* whether object j has a member of that name
HasMember(j, name) == name \in DOMAIN j.o
\* a field no member of the object sets keeps its zero value
Absent(zero) == [v |-> zero, err |-> FALSE]

\* into transformertypes.Artifact
DecodeArtifact(j) ==
    CASE j.k = "null" -> [v |-> ZeroArtifact, err |-> FALSE]
      [] j.k = "obj"  ->
            LET p == IF HasMember(j, "paths") THEN DecodePaths(j.o["paths"]) ELSE Absent(Nil)
                c == IF HasMember(j, "configs") THEN DecodeConfigs(j.o["configs"]) ELSE Absent(Nil)
            IN  [v |-> [Paths |-> p.v, Configs |-> c.v], err |-> p.err \/ c.err]
      [] OTHER        -> [v |-> ZeroArtifact, err |-> TRUE]

\* into []transformertypes.Artifact
DecodeArtifactSlice(j) ==
    CASE j.k = "null" -> [v |-> Nil, err |-> FALSE]
      [] j.k = "arr"  ->
            [v   |-> GoSlice([i \in 1..Len(j.l) |-> DecodeArtifact(j.l[i]).v]),
             err |-> \E i \in 1..Len(j.l) : DecodeArtifact(j.l[i]).err]
      [] OTHER        -> [v |-> Nil, err |-> TRUE]

\* into map[string][]transformertypes.Artifact
DecodeServices(j) ==
    CASE j.k = "null" -> [v |-> Nil, err |-> FALSE]
      [] j.k = "obj"  ->
            [v   |-> GoMap([key \in DOMAIN j.o |-> DecodeArtifactSlice(j.o[key]).v]),
             err |-> \E key \in DOMAIN j.o : DecodeArtifactSlice(j.o[key]).err]
      [] OTHER        -> [v |-> Nil, err |-> TRUE]

\* into transformertypes.PathMapping
DecodePathMapping(j) ==
    CASE j.k = "null" -> [v |-> ZeroPathMapping, err |-> FALSE]
      [] j.k = "obj"  ->
            LET ty == IF HasMember(j, "type") THEN DecodeString(j.o["type"]) ELSE Absent(EmptyStr)
                sp == IF HasMember(j, "srcPath") THEN DecodeString(j.o["srcPath"]) ELSE Absent(EmptyStr)
                dp == IF HasMember(j, "destPath") THEN DecodeString(j.o["destPath"]) ELSE Absent(EmptyStr)
                tc == IF HasMember(j, "templateConfig")
                      THEN DecodeAny(j.o["templateConfig"]) ELSE Nil
            IN  [v   |-> [Type |-> ty.v, SrcPath |-> sp.v, DestPath |-> dp.v,
                          TemplateConfig |-> tc],
                 err |-> ty.err \/ sp.err \/ dp.err]
      [] OTHER        -> [v |-> ZeroPathMapping, err |-> TRUE]

\* into []transformertypes.PathMapping
DecodePathMappingSlice(j) ==
    CASE j.k = "null" -> [v |-> Nil, err |-> FALSE]
      [] j.k = "arr"  ->
            [v   |-> GoSlice([i \in 1..Len(j.l) |-> DecodePathMapping(j.l[i]).v]),
             err |-> \E i \in 1..Len(j.l) : DecodePathMapping(j.l[i]).err]
      [] OTHER        -> [v |-> Nil, err |-> TRUE]

\* into transformertypes.TransformOutput
DecodeTransformOutput(j) ==
    CASE j.k = "null" -> [v |-> ZeroTransformOutput, err |-> FALSE]
      [] j.k = "obj"  ->
            LET pm == IF HasMember(j, "pathMappings")
                      THEN DecodePathMappingSlice(j.o["pathMappings"]) ELSE Absent(Nil)
                ca == IF HasMember(j, "createdArtifacts")
                      THEN DecodeArtifactSlice(j.o["createdArtifacts"]) ELSE Absent(Nil)
            IN  [v   |-> [PathMappings |-> pm.v, CreatedArtifacts |-> ca.v],
                 err |-> pm.err \/ ca.err]
      [] OTHER        -> [v |-> ZeroTransformOutput, err |-> TRUE]

(***************************************************************************)
(* The text a command writes to stdout: white space around a body that is  *)
(* empty, a JSON document, or text that is no JSON document.               *)
(***************************************************************************)
Text(ws, body) == [ws |-> ws, body |-> body]
EmptyBody == [k |-> "empty"]
GarbageBody == [k |-> "garbage"]
JsonBody(j) == [k |-> "json", j |-> j]

\* strings.TrimSpace
TrimSpace(text) == [text EXCEPT !.ws = FALSE]
\* text == ""
IsEmptyString(text) == ~text.ws /\ text.body.k = "empty"

\* json.Unmarshal checks the whole text first: text that is no JSON document
\* is a syntax error and leaves the target as it was
IsJSON(text) == text.body.k = "json"
SyntaxError(target) == [v |-> target, err |-> TRUE]

\* into the map[string]interface{} config of executeDetect, which is
\* allocated (empty, not nil) before the call
DecodeConfigObject(j) ==
    CASE j.k = "null" -> [v |-> Nil, err |-> FALSE]
      [] j.k = "obj"  -> [v |-> DecodeAny(j), err |-> FALSE]
      [] OTHER        -> [v |-> GoMap(NoEntries), err |-> TRUE]

\* json.Unmarshal([]byte(stdout), &output) of executeDetect
UnmarshalServices(text) ==
    IF IsJSON(text) THEN DecodeServices(text.body.j) ELSE SyntaxError(Nil)
\* json.Unmarshal([]byte(stdout), &config) of executeDetect
UnmarshalConfigObject(text) ==
    IF IsJSON(text) THEN DecodeConfigObject(text.body.j) ELSE SyntaxError(GoMap(NoEntries))
\* json.Unmarshal([]byte(stdout), &output) of Transform
UnmarshalTransformOutput(text) ==
    IF IsJSON(text) THEN DecodeTransformOutput(text.body.j)
    ELSE SyntaxError(ZeroTransformOutput)

(***************************************************************************)
(* The state: the fields of one Executable, its life cycle as its caller   *)
(* sees it, and the call in progress with what it returned.                *)
(***************************************************************************)
VARIABLES
    Config,      \* t.Config
    ExecConfig,  \* t.ExecConfig
    Env,         \* t.Env
    phase,       \* "Uninitialized", "Initialized", or "Unusable" after a failed Init
    call,        \* the last call made on the Executable and its inputs
    ret,         \* what that call returned
    \* package container: its globals, the goroutines calling it, the operator
    inited,        \* var inited bool
    disabled,      \* var disabled bool
    workingEngine, \* var workingEngine ContainerEngine
    answer,        \* the operator's answer to "Allow spawning containers?"
    pc,            \* where each caller is in GetContainerEngine
    initErr,       \* each caller's err of newDockerEngine
    got,           \* what GetContainerEngine last returned to each caller
    queries,       \* how often the operator was asked
    attempts,      \* how often newDockerEngine ran
    exited,        \* logrus.Fatalf has ended the process
    firstReturned, \* a GetContainerEngine call has returned
    isDisabledRet  \* what the last IsDisabled call returned

\* the fields of the Executable and its caller's view
evars == <<Config, ExecConfig, Env, phase, call, ret>>
\* package container and its callers
cvars == <<inited, disabled, workingEngine, answer, pc, initErr, got,
           queries, attempts, exited, firstReturned, isDisabledRet>>
vars == <<evars, cvars>>

NoCall == [op |-> "none"]

\* the goroutines that call package container
Callers == 1..MaxCallers
\* GetContainerEngine has not returned to this caller yet
Pending == [k |-> "pending"]
\* a ContainerEngine made by newDockerEngine
Engine(id) == [k |-> "engine", id |-> id]
\* IsDisabled has not been called
NotCalled == [made |-> FALSE]

\* runtime.GOOS
GOOS == "linux"

\* common.IsPresent
IsPresent(list, value) == \E i \in 1..Len(list) : list[i] = value

\* an environmenttypes.Command: nil or a list of tokens
DetectCommand == GoSlice(<< <<"detect.sh">> >>)
TransformCommand == GoSlice(<< <<"transform.sh">>, <<"--json">> >>)

\* the plugin configurations Init is called with: what
\* common.GetObjFromInterface loads from tc.Spec.Config, or its failure
PluginConfig(name, ok, qa, platforms, detect, transform, image) ==
    [Name |-> name, parses |-> ok,
     yaml |-> [EnableQA |-> qa, Platforms |-> platforms,
               DirectoryDetectCMD |-> detect, TransformCMD |-> transform,
               Container |-> [Image |-> image]]]

TransformerConfigs ==
    { PluginConfig("host", TRUE, FALSE, <<"linux">>, DetectCommand, TransformCommand, ""),
      PluginConfig("detect-only", TRUE, TRUE, <<"darwin">>, DetectCommand, Nil, "quay.io/plugin"),
      PluginConfig("template-only", TRUE, FALSE, <<"linux", "darwin">>, Nil, Nil, "quay.io/plugin"),
      PluginConfig("transform-only", TRUE, TRUE, <<"linux">>, Nil, TransformCommand, ""),
      PluginConfig("unsupported", TRUE, FALSE, <<"darwin">>, DetectCommand, TransformCommand, ""),
      PluginConfig("malformed", FALSE, FALSE, << >>, Nil, Nil, "") }

\* the zero value &ExecutableYamlConfig{}
ZeroExecConfig ==
    [EnableQA |-> FALSE, Platforms |-> << >>, DirectoryDetectCMD |-> Nil,
     TransformCMD |-> Nil, Container |-> [Image |-> ""]]

\* the source root, context and templates directory of the Environment
EnvSource == <<"/", "src">>
EnvContext == <<"/", "plugin">>
EnvRelTemplatesDir == <<"templates">>

\* environment.NewEnvironment
NewEnvironment(qaRPCReceiverAddr, container) ==
    [Source |-> EnvSource, Context |-> EnvContext,
     RelTemplatesDir |-> EnvRelTemplatesDir,
     QAAddr |-> qaRPCReceiverAddr, Container |-> container]

TypeOK ==
    /\ phase \in {"Uninitialized", "Initialized", "Unusable"}
    /\ call.op \in {"none", "Init", "DirectoryDetect", "Transform"}

Init ==
    /\ Config = Nil
    /\ ExecConfig = Nil
    /\ Env = Nil
    /\ phase = "Uninitialized"
    /\ call = NoCall
    /\ ret = Nil
    /\ inited = FALSE
    /\ disabled = FALSE
    /\ workingEngine = Nil
    /\ answer = "unasked"
    /\ pc = [c \in Callers |-> "idle"]
    /\ initErr = [c \in Callers |-> FALSE]
    /\ got = [c \in Callers |-> Pending]
    /\ queries = 0
    /\ attempts = 0
    /\ exited = FALSE
    /\ firstReturned = FALSE
    /\ isDisabledRet = NotCalled

(***************************************************************************)
(* Executable.Init.  qaStarts: whether questionreceivers.StartGRPCReceiver *)
(* succeeds; envCreated: whether environment.NewEnvironment succeeds.      *)
(***************************************************************************)
\* Init without the test of the platforms and the container image
ExecutableInit_NoPlatformCheck(tc, qaStarts, envCreated) ==
    LET loaded == IF tc.parses THEN tc.yaml ELSE ZeroExecConfig
        addr   == IF loaded.EnableQA /\ qaStarts THEN "qa-addr" ELSE "nil"
    IN  IF ~tc.parses
        THEN [Config |-> tc, ExecConfig |-> loaded, Env |-> Nil, err |-> "config"]
        ELSE IF ~envCreated
        THEN [Config |-> tc, ExecConfig |-> loaded, Env |-> Nil, err |-> "environment"]
        ELSE [Config |-> tc, ExecConfig |-> loaded,
              Env |-> NewEnvironment(addr, loaded.Container), err |-> "nil"]

ExecutableInit(tc, qaStarts, envCreated) ==
    LET loaded == IF tc.parses THEN tc.yaml ELSE ZeroExecConfig
        addr   == IF loaded.EnableQA /\ qaStarts THEN "qa-addr" ELSE "nil"
    IN  IF ~tc.parses
        THEN [Config |-> tc, ExecConfig |-> loaded, Env |-> Nil, err |-> "config"]
        ELSE IF ~IsPresent(loaded.Platforms, GOOS) /\ loaded.Container.Image = ""
        THEN [Config |-> tc, ExecConfig |-> loaded, Env |-> Nil, err |-> "platform"]
        ELSE IF ~envCreated
        THEN [Config |-> tc, ExecConfig |-> loaded, Env |-> Nil, err |-> "environment"]
        ELSE [Config |-> tc, ExecConfig |-> loaded,
              Env |-> NewEnvironment(addr, loaded.Container), err |-> "nil"]

InitCall ==
    /\ phase = "Uninitialized"
    /\ \E tc \in TransformerConfigs, qaStarts \in BOOLEAN, envCreated \in BOOLEAN :
         LET r == ExecutableInit(tc, qaStarts, envCreated)
         IN  /\ Config' = r.Config
             /\ ExecConfig' = r.ExecConfig
             /\ Env' = r.Env
             /\ phase' = IF r.err = "nil" THEN "Initialized" ELSE "Unusable"
             /\ call' = [op |-> "Init", tc |-> tc]
             /\ ret' = [err |-> r.err]
    /\ UNCHANGED cvars

(***************************************************************************)
(* Environment.Exec: what one invocation of a command gives back.          *)
(***************************************************************************)
ExecResult(err, exitcode, stdout) == [err |-> err, exitcode |-> exitcode, stdout |-> stdout]

NoOutput == Text(FALSE, EmptyBody)
\* Exec fails with EnvironmentNotActiveError
ExecNotActive == ExecResult("EnvironmentNotActive", 0, NoOutput)
\* Exec fails with another error
ExecFailed == ExecResult("other", 0, NoOutput)

\* errors.Is(err, &environment.EnvironmentNotActiveError{})
IsEnvironmentNotActive(err) == err = "EnvironmentNotActive"

\* the argument put in front of the declared tokens
AppendArg_ArgFirst(cmd, arg) == <<arg>> \o Elems(cmd)

\* append(cmd, arg): the declared tokens followed by arg
AppendArg(cmd, arg) == Append(Elems(cmd), arg)

(***************************************************************************)
(* executeDetect and DirectoryDetect.  Both give                           *)
(* [services, err, execs]: execs are the command lines passed to Exec.     *)
(***************************************************************************)
\* the artifact executeDetect wraps an opaque configuration in
FallbackArtifact(dir, config) ==
    [Paths   |-> GoMap(ServiceDirPathType :> GoSlice(<<dir>>)),
     Configs |-> GoMap(TemplateConfigType :> config)]

\* executeDetect without the check of the first Unmarshal's error: what was
\* decoded before the type error is returned as the services
executeDetect_IgnoresUnmarshalError(cmd, dir, r) ==
    LET execs  == << AppendArg(cmd, dir) >>
        stdout == TrimSpace(r.stdout)
        output == UnmarshalServices(stdout)
    IN  IF r.err # "nil"
        THEN [services |-> Nil, err |-> r.err, execs |-> execs]
        ELSE IF r.exitcode # 0
        THEN [services |-> Nil, err |-> "nil", execs |-> execs]
        ELSE [services |-> output.v, err |-> "nil", execs |-> execs]

\* executeDetect without the test of the exit code
executeDetect_IgnoresExitCode(cmd, dir, r) ==
    LET execs  == << AppendArg(cmd, dir) >>
        stdout == TrimSpace(r.stdout)
        output == UnmarshalServices(stdout)
        config == IF ~IsEmptyString(stdout)
                  THEN UnmarshalConfigObject(stdout).v
                  ELSE Nil
    IN  IF r.err # "nil"
        THEN [services |-> Nil, err |-> r.err, execs |-> execs]
        ELSE IF ~output.err
        THEN [services |-> output.v, err |-> "nil", execs |-> execs]
        ELSE [services |-> GoMap("" :> GoSlice(<<FallbackArtifact(dir, config)>>)),
              err |-> "nil", execs |-> execs]

\* executeDetect treating EnvironmentNotActive like a non-zero exit
executeDetect_SwallowsNotActive(cmd, dir, r) ==
    LET execs  == << AppendArg(cmd, dir) >>
        stdout == TrimSpace(r.stdout)
        output == UnmarshalServices(stdout)
        config == IF ~IsEmptyString(stdout)
                  THEN UnmarshalConfigObject(stdout).v
                  ELSE Nil
    IN  IF IsEnvironmentNotActive(r.err)
        THEN [services |-> Nil, err |-> "nil", execs |-> execs]
        ELSE IF r.err # "nil"
        THEN [services |-> Nil, err |-> r.err, execs |-> execs]
        ELSE IF r.exitcode # 0
        THEN [services |-> Nil, err |-> "nil", execs |-> execs]
        ELSE IF ~output.err
        THEN [services |-> output.v, err |-> "nil", execs |-> execs]
        ELSE [services |-> GoMap("" :> GoSlice(<<FallbackArtifact(dir, config)>>)),
              err |-> "nil", execs |-> execs]

executeDetect(cmd, dir, r) ==
    LET execs  == << AppendArg(cmd, dir) >>
        stdout == TrimSpace(r.stdout)
        output == UnmarshalServices(stdout)
        config == IF ~IsEmptyString(stdout)
                  THEN UnmarshalConfigObject(stdout).v
                  ELSE Nil
    IN  IF r.err # "nil"
        THEN [services |-> Nil, err |-> r.err, execs |-> execs]
        ELSE IF r.exitcode # 0
        THEN [services |-> Nil, err |-> "nil", execs |-> execs]
        ELSE IF ~output.err
        THEN [services |-> output.v, err |-> "nil", execs |-> execs]
        ELSE [services |-> GoMap("" :> GoSlice(<<FallbackArtifact(dir, config)>>)),
              err |-> "nil", execs |-> execs]

\* the inner loop testing nst.Paths == nil instead of len(nst.Paths) == 0
DefaultPaths_NilOnly(nst, dir) ==
    IF nst.Paths = Nil
    THEN [nst EXCEPT !.Paths = GoMap(ServiceDirPathType :> GoSlice(<<dir>>))]
    ELSE nst

\* the body of DirectoryDetect's inner loop
DefaultPaths(nst, dir) ==
    IF MapLen(nst.Paths) = 0
    THEN [nst EXCEPT !.Paths = GoMap(ServiceDirPathType :> GoSlice(<<dir>>))]
    ELSE nst

\* DirectoryDetect's loops over services and their artifacts
PostProcess(services, dir) ==
    IF services.k # "map" THEN services
    ELSE GoMap([sn \in DOMAIN services.m |->
                 LET ns == services.m[sn]
                 IN  IF ns.k # "slice" THEN ns
                     ELSE GoSlice([nsi \in 1..Len(ns.l) |-> DefaultPaths(ns.l[nsi], dir)])])

\* DirectoryDetect without the check for a missing detect command
DirectoryDetect_NoNilCheck(dir, r) ==
    LET d == executeDetect(ExecConfig.DirectoryDetectCMD, dir, r)
    IN  IF d.err # "nil" THEN d
        ELSE [d EXCEPT !.services = PostProcess(d.services, dir)]

DirectoryDetect(dir, r) ==
    IF ExecConfig.DirectoryDetectCMD = Nil
    THEN [services |-> Nil, err |-> "nil", execs |-> << >>]
    ELSE LET d == executeDetect(ExecConfig.DirectoryDetectCMD, dir, r)
         IN  IF d.err # "nil" THEN d
             ELSE [d EXCEPT !.services = PostProcess(d.services, dir)]

(***************************************************************************)
(* What detect commands write.                                             *)
(***************************************************************************)
SeqsUpTo(S, n) == UNION { [1..m -> S] : m \in 0..n }

\* the directories detect is run in
Dirs == { <<"/", "src", "a">>, <<"/", "src", "b", "c">> }

ArtifactDocs ==
    { JObj(NoMembers),
      JObj([paths |-> JObj(NoMembers)]),
      JObj([paths |-> JObj([serviceDir |-> JArr(<<JStr(<<"/", "src", "x">>)>>)])]),
      JObj([paths |-> JObj([serviceDir |-> JArr(<< >>)])]),
      JObj([configs |-> JObj([TemplateConfig |-> JObj([port |-> JNum(8080)])])]),
      JObj([paths |-> JNum(1)]),
      JNull,
      JNum(1) }

ServiceDocs ==
    { JArr(l) : l \in SeqsUpTo(ArtifactDocs, MaxDetectArtifacts) }
      \cup { JNull, JNum(8080), JStr(<<"node">>), JObj(NoMembers) }

DetectDocs ==
    { JObj("web" :> sd) : sd \in ServiceDocs }
      \cup { JObj(("web" :> sd) @@ ("" :> other)) :
               sd \in ServiceDocs, other \in { JArr(<<JObj(NoMembers)>>), JNum(8080) } }
      \cup { JObj(NoMembers), JNull, JNum(1), JStr(<<"node">>), JArr(<< >>),
             JArr(<<JObj(NoMembers)>>),
             JObj([image |-> JStr(<<"node">>), port |-> JNum(8080)]) }

DetectStdouts ==
    { Text(FALSE, JsonBody(d)) : d \in DetectDocs }
      \cup { Text(ws, b) : ws \in BOOLEAN,
               b \in { EmptyBody, GarbageBody, JsonBody(JObj([port |-> JNum(8080)])) } }

DetectExecResults ==
    { ExecNotActive, ExecFailed }
      \cup { ExecResult("nil", 0, out) : out \in DetectStdouts }
      \cup { ExecResult("nil", 1, out) :
               out \in { NoOutput, Text(TRUE, GarbageBody),
                         Text(FALSE, JsonBody(JObj([web |-> JArr(<<JObj(NoMembers)>>)]))),
                         Text(FALSE, JsonBody(JObj([port |-> JNum(8080)]))) } }

DirectoryDetectCall ==
    /\ phase = "Initialized"
    /\ call = NoCall
    /\ \E dir \in Dirs, r \in DetectExecResults :
         /\ call' = [op |-> "DirectoryDetect", dir |-> dir, exec |-> r]
         /\ ret' = DirectoryDetect(dir, r)
    /\ UNCHANGED <<Config, ExecConfig, Env, phase>>
    /\ UNCHANGED cvars

(***************************************************************************)
(* Transform.  One pass of its loop gives what the artifact contributes    *)
(* (pathMappings, createdArtifacts), the command line passed to Exec if    *)
(* any, and whether the pass ended in a run-time panic (an index out of    *)
(* range) instead of going on to the next artifact.                        *)
(***************************************************************************)
Pass(pathMappings, createdArtifacts, execs, panicked) ==
    [pathMappings |-> pathMappings, createdArtifacts |-> createdArtifacts,
     execs |-> execs, panicked |-> panicked]

\* the template branch without the continue after a failed filepath.Rel
TemplateFallback_NoSkip(a) ==
    LET dirs       == Elems(MapGet(a.Paths, ServiceDirPathType, Nil))
        relSrcPath == Rel(Env.Source, dirs[1])
        config     == IF a.Configs # Nil
                      THEN MapGet(a.Configs, TemplateConfigType, Nil) ELSE Nil
    IN  IF Len(dirs) = 0 THEN Pass(<< >>, << >>, << >>, TRUE)
        ELSE Pass(<< [Type |-> TemplatePathMappingType,
                      SrcPath |-> Join(Env.Context, Env.RelTemplatesDir),
                      DestPath |-> Join(DefaultSourceDir, relSrcPath.path),
                      TemplateConfig |-> config],
                     [Type |-> SourcePathMappingType,
                      SrcPath |-> EmptyStr,
                      DestPath |-> DefaultSourceDir,
                      TemplateConfig |-> Nil] >>,
                  << >>, << >>, FALSE)

\* the branch taken when no transform command is configured
TemplateFallback(a) ==
    LET dirs       == Elems(MapGet(a.Paths, ServiceDirPathType, Nil))
        relSrcPath == Rel(Env.Source, dirs[1])
        config     == IF a.Configs # Nil
                      THEN MapGet(a.Configs, TemplateConfigType, Nil) ELSE Nil
    IN  IF Len(dirs) = 0 THEN Pass(<< >>, << >>, << >>, TRUE)
        ELSE IF relSrcPath.err THEN Pass(<< >>, << >>, << >>, FALSE)
        ELSE Pass(<< [Type |-> TemplatePathMappingType,
                      SrcPath |-> Join(Env.Context, Env.RelTemplatesDir),
                      DestPath |-> Join(DefaultSourceDir, relSrcPath.path),
                      TemplateConfig |-> config],
                     [Type |-> SourcePathMappingType,
                      SrcPath |-> EmptyStr,
                      DestPath |-> DefaultSourceDir,
                      TemplateConfig |-> Nil] >>,
                  << >>, << >>, FALSE)

\* the argument appended to the transform command: the artifact's first
\* serviceDir path, "" when it has no serviceDir role; indexing an empty,
\* non-nil list panics
ServiceDirArg(a) ==
    LET sd     == MapGet(a.Paths, ServiceDirPathType, Nil)
        hasDir == a.Paths # Nil /\ sd # Nil
    IN  IF ~hasDir THEN [path |-> EmptyStr, panicked |-> FALSE]
        ELSE IF Len(sd.l) = 0 THEN [path |-> EmptyStr, panicked |-> TRUE]
        ELSE [path |-> sd.l[1], panicked |-> FALSE]

\* the command branch without the test of the exit code
RunTransformCMD_IgnoresExitCode(a, r) ==
    LET execs  == << AppendArg(ExecConfig.TransformCMD, ServiceDirArg(a).path) >>
        output == UnmarshalTransformOutput(TrimSpace(r.stdout)).v
    IN  IF ServiceDirArg(a).panicked THEN Pass(<< >>, << >>, << >>, TRUE)
        ELSE IF r.err # "nil" THEN Pass(<< >>, << >>, execs, FALSE)
        ELSE Pass(Elems(output.PathMappings), Elems(output.CreatedArtifacts), execs, FALSE)

\* the branch taken when a transform command is configured; r is what Exec
\* gives back for this artifact
RunTransformCMD(a, r) ==
    LET execs  == << AppendArg(ExecConfig.TransformCMD, ServiceDirArg(a).path) >>
        output == UnmarshalTransformOutput(TrimSpace(r.stdout)).v
    IN  IF ServiceDirArg(a).panicked THEN Pass(<< >>, << >>, << >>, TRUE)
        ELSE IF r.err # "nil" THEN Pass(<< >>, << >>, execs, FALSE)
        ELSE IF r.exitcode # 0 THEN Pass(<< >>, << >>, execs, FALSE)
        ELSE Pass(Elems(output.PathMappings), Elems(output.CreatedArtifacts), execs, FALSE)

RECURSIVE TransformLoop_Prepends(_, _, _)
\* the loop putting each artifact's results in front of the aggregate
TransformLoop_Prepends(arts, answers, acc) ==
    IF arts = << >> THEN [acc EXCEPT !.unused = Len(answers)]
    ELSE IF ExecConfig.TransformCMD = Nil
    THEN LET p == TemplateFallback(Head(arts))
         IN  IF p.panicked
             THEN [acc EXCEPT !.panicked = TRUE, !.err = "panic", !.unused = Len(answers)]
             ELSE TransformLoop_Prepends(Tail(arts), answers,
                      [acc EXCEPT !.pathMappings = @ \o p.pathMappings])
    ELSE IF ServiceDirArg(Head(arts)).panicked
    THEN [acc EXCEPT !.panicked = TRUE, !.err = "panic", !.unused = Len(answers)]
    ELSE IF answers = << >> THEN [acc EXCEPT !.starved = TRUE]
    ELSE LET p == RunTransformCMD(Head(arts), Head(answers))
         IN  TransformLoop_Prepends(Tail(arts), Tail(answers),
                 [acc EXCEPT !.pathMappings = p.pathMappings \o @,
                      !.createdArtifacts = p.createdArtifacts \o @,
                      !.execs = @ \o p.execs])

RECURSIVE TransformLoop(_, _, _)
\* the loop over newArtifacts; answers are what the Exec calls still to be
\* made give back, in order
TransformLoop(arts, answers, acc) ==
    IF arts = << >> THEN [acc EXCEPT !.unused = Len(answers)]
    ELSE IF ExecConfig.TransformCMD = Nil
    THEN LET p == TemplateFallback(Head(arts))
         IN  IF p.panicked
             THEN [acc EXCEPT !.panicked = TRUE, !.err = "panic", !.unused = Len(answers)]
             ELSE TransformLoop(Tail(arts), answers,
                      [acc EXCEPT !.pathMappings = @ \o p.pathMappings])
    ELSE IF ServiceDirArg(Head(arts)).panicked
    THEN [acc EXCEPT !.panicked = TRUE, !.err = "panic", !.unused = Len(answers)]
    ELSE IF answers = << >> THEN [acc EXCEPT !.starved = TRUE]
    ELSE LET p == RunTransformCMD(Head(arts), Head(answers))
         IN  TransformLoop(Tail(arts), Tail(answers),
                 [acc EXCEPT !.pathMappings = @ \o p.pathMappings,
                      !.createdArtifacts = @ \o p.createdArtifacts,
                      !.execs = @ \o p.execs])

Transform(newArtifacts, answers) ==
    TransformLoop(newArtifacts, answers,
        [pathMappings |-> << >>, createdArtifacts |-> << >>, err |-> "nil",
         execs |-> << >>, panicked |-> FALSE, starved |-> FALSE, unused |-> 0])

(***************************************************************************)
(* The artifacts Transform is called with and what transform commands      *)
(* write.                                                                  *)
(***************************************************************************)
Artifact(paths, configs) == [Paths |-> paths, Configs |-> configs]
DirPaths(role, list) == GoMap(role :> GoSlice(list))

\* a service directory under the source root, with a template configuration
ArtifactInRoot ==
    Artifact(DirPaths(ServiceDirPathType, << <<"/", "src", "a">> >>),
             GoMap(TemplateConfigType :> GoMap("port" :> GoNum(8080))))
\* a service directory outside the source root
ArtifactOutsideRoot ==
    Artifact(DirPaths(ServiceDirPathType, << <<"/", "other", "x">>, <<"/", "src", "a">> >>), Nil)
\* a relative service directory: it cannot be made relative to the rooted source root
ArtifactRelativeDir ==
    Artifact(DirPaths(ServiceDirPathType, << <<"b">> >>), GoMap(NoEntries))
\* no paths at all
ArtifactNoPaths == Artifact(Nil, Nil)
\* paths, but none in the serviceDir role
ArtifactNoServiceDir == Artifact(DirPaths("buildDir", << <<"/", "src", "a">> >>), Nil)
\* the serviceDir role with an empty list
ArtifactEmptyServiceDir == Artifact(DirPaths(ServiceDirPathType, << >>), Nil)

TransformArtifacts ==
    { ArtifactInRoot, ArtifactOutsideRoot, ArtifactRelativeDir,
      ArtifactNoPaths, ArtifactNoServiceDir, ArtifactEmptyServiceDir }

PathMappingDoc(type, srcPath, destPath) ==
    JObj([type |-> JStr(type), srcPath |-> JStr(srcPath), destPath |-> JStr(destPath)])

\* {"pathMappings":[{"type":"source","srcPath":"","destPath":"/out"}],"createdArtifacts":[]}
RoundTripDoc ==
    JObj([pathMappings |-> JArr(<< PathMappingDoc(<<"source">>, EmptyStr, <<"/", "out">>) >>),
          createdArtifacts |-> JArr(<< >>)])
\* the same mapping twice and one created artifact
DuplicatesDoc ==
    JObj([pathMappings |-> JArr(<< PathMappingDoc(<<"template">>, <<"t">>, <<"/", "out">>),
                                    PathMappingDoc(<<"template">>, <<"t">>, <<"/", "out">>) >>),
          createdArtifacts |-> JArr(<< JObj([paths |-> JObj([serviceDir |->
                                             JArr(<<JStr(<<"/", "src", "new">>)>>)])]) >>)])
\* a well-formed pathMappings list followed by an ill-typed createdArtifacts
IllTypedDoc ==
    JObj([pathMappings |-> JArr(<< PathMappingDoc(<<"source">>, EmptyStr, <<"/", "bad">>) >>),
          createdArtifacts |-> JStr(<<"oops">>)])

TransformExecResults ==
    { ExecNotActive, ExecFailed,
      ExecResult("nil", 1, Text(FALSE, JsonBody(RoundTripDoc))),
      ExecResult("nil", 2, Text(FALSE, JsonBody(DuplicatesDoc))),
      ExecResult("nil", 0, Text(TRUE, JsonBody(RoundTripDoc))),
      ExecResult("nil", 0, Text(FALSE, JsonBody(DuplicatesDoc))),
      ExecResult("nil", 0, Text(FALSE, JsonBody(IllTypedDoc))),
      ExecResult("nil", 0, Text(FALSE, GarbageBody)) }

\* alreadySeenArtifacts is not read by Transform
TransformCall ==
    /\ phase = "Initialized"
    /\ call = NoCall
    /\ \E newArtifacts \in SeqsUpTo(TransformArtifacts, MaxArtifacts) :
         \E answers \in SeqsUpTo(TransformExecResults, Len(newArtifacts)) :
           LET r == Transform(newArtifacts, answers)
           IN  /\ ~r.starved
               /\ r.unused = 0
               /\ call' = [op |-> "Transform", newArtifacts |-> newArtifacts,
                           exec |-> answers]
               /\ ret' = r
    /\ UNCHANGED <<Config, ExecConfig, Env, phase>>
    /\ UNCHANGED cvars

\* the caller takes the result of the last call and is ready for the next
ResultTaken ==
    /\ call # NoCall
    /\ call' = NoCall
    /\ ret' = Nil
    /\ UNCHANGED <<Config, ExecConfig, Env, phase>>
    /\ UNCHANGED cvars

Next ==
    \/ InitCall
    \/ DirectoryDetectCall
    \/ TransformCall
    \/ ResultTaken

Spec == Init /\ [][Next]_vars

(***************************************************************************)
(* Package container.  GetContainerEngine runs without a lock, so its      *)
(* statements interleave with those of other callers: one action per read  *)
(* or write of a global.  After logrus.Fatalf has ended the process        *)
(* nothing runs.                                                           *)
(***************************************************************************)
At(c, place) == ~exited /\ pc[c] = place
Goto(c, place) == pc' = [pc EXCEPT ![c] = place]

\* GetContainerEngine is entered: if !inited
GetContainerEngineCall(c) ==
    /\ At(c, "idle")
    /\ Goto(c, IF ~inited THEN "ask" ELSE "return")
    /\ UNCHANGED <<inited, disabled, workingEngine, answer, initErr, got,
                   queries, attempts, exited, firstReturned, isDisabledRet>>
    /\ UNCHANGED evars

\* the query storing the operator's answer as it is
FetchBoolAnswer_NoNegation(c) ==
    /\ At(c, "ask")
    /\ \E a \in (IF answer = "unasked" THEN {"yes", "no"} ELSE {answer}) :
         /\ answer' = a
         /\ disabled' = (a = "yes")
    /\ queries' = queries + 1
    /\ Goto(c, "test")
    /\ UNCHANGED <<inited, workingEngine, initErr, got, attempts, exited,
                   firstReturned, isDisabledRet>>
    /\ UNCHANGED evars

\* disabled = !qaengine.FetchBoolAnswer(...): the operator is asked and
\* keeps to the answer given before
FetchBoolAnswer(c) ==
    /\ At(c, "ask")
    /\ \E a \in (IF answer = "unasked" THEN {"yes", "no"} ELSE {answer}) :
         /\ answer' = a
         /\ disabled' = (a = "no")
    /\ queries' = queries + 1
    /\ Goto(c, "test")
    /\ UNCHANGED <<inited, workingEngine, initErr, got, attempts, exited,
                   firstReturned, isDisabledRet>>
    /\ UNCHANGED evars

\* if !disabled
TestDisabled(c) ==
    /\ At(c, "test")
    /\ Goto(c, IF ~disabled THEN "discover" ELSE "mark")
    /\ UNCHANGED <<inited, disabled, workingEngine, answer, initErr, got,
                   queries, attempts, exited, firstReturned, isDisabledRet>>
    /\ UNCHANGED evars

\* what newDockerEngine gives: an engine, an error, or neither
DiscoveryOutcomes == {"engine", "error", "none"}

\* workingEngine, err = newDockerEngine()
newDockerEngine(c) ==
    /\ At(c, "discover")
    /\ \E outcome \in DiscoveryOutcomes :
         /\ workingEngine' = IF outcome = "engine" THEN Engine(attempts + 1) ELSE Nil
         /\ initErr' = [initErr EXCEPT ![c] = (outcome = "error")]
    /\ attempts' = attempts + 1
    /\ Goto(c, "verify")
    /\ UNCHANGED <<inited, disabled, answer, got, queries, exited,
                   firstReturned, isDisabledRet>>
    /\ UNCHANGED evars

\* the rest of initContainerEngine: err != nil or workingEngine == nil is
\* an error, on which GetContainerEngine goes to logrus.Fatalf
initContainerEngine(c) ==
    /\ At(c, "verify")
    /\ Goto(c, IF initErr[c] \/ workingEngine = Nil THEN "fatal" ELSE "mark")
    /\ UNCHANGED <<inited, disabled, workingEngine, answer, initErr, got,
                   queries, attempts, exited, firstReturned, isDisabledRet>>
    /\ UNCHANGED evars

\* logrus.Fatalf: the process ends
Fatalf(c) ==
    /\ At(c, "fatal")
    /\ exited' = TRUE
    /\ UNCHANGED <<inited, disabled, workingEngine, answer, pc, initErr, got,
                   queries, attempts, firstReturned, isDisabledRet>>
    /\ UNCHANGED evars

\* inited = true
MarkInited(c) ==
    /\ At(c, "mark")
    /\ inited' = TRUE
    /\ Goto(c, "return")
    /\ UNCHANGED <<disabled, workingEngine, answer, initErr, got, queries,
                   attempts, exited, firstReturned, isDisabledRet>>
    /\ UNCHANGED evars

\* return workingEngine
ReturnEngine(c) ==
    /\ At(c, "return")
    /\ got' = [got EXCEPT ![c] = workingEngine]
    /\ firstReturned' = TRUE
    /\ Goto(c, "idle")
    /\ UNCHANGED <<inited, disabled, workingEngine, answer, initErr, queries,
                   attempts, exited, isDisabledRet>>
    /\ UNCHANGED evars

\* IsDisabled, called between GetContainerEngine calls; after: whether a
\* GetContainerEngine call had returned when it was called
IsDisabled(c) ==
    /\ At(c, "idle")
    /\ isDisabledRet' = [made |-> TRUE, after |-> firstReturned, v |-> disabled]
    /\ UNCHANGED <<inited, disabled, workingEngine, answer, pc, initErr, got,
                   queries, attempts, exited, firstReturned>>
    /\ UNCHANGED evars

ContainerNext ==
    \E c \in Callers :
        \/ GetContainerEngineCall(c)
        \/ FetchBoolAnswer(c)
        \/ TestDisabled(c)
        \/ newDockerEngine(c)
        \/ initContainerEngine(c)
        \/ Fatalf(c)
        \/ MarkInited(c)
        \/ ReturnEngine(c)
        \/ IsDisabled(c)

ContainerSpec == Init /\ [][ContainerNext]_vars

(***************************************************************************)
(* Vocabulary of the properties.                                           *)
(***************************************************************************)
\* a DirectoryDetect call has returned, with a detect command configured
DetectRan == call.op = "DirectoryDetect" /\ ExecConfig.DirectoryDetectCMD # Nil
\* ... and the command ran without exec error and exited 0
DetectSucceeded == DetectRan /\ call.exec.err = "nil" /\ call.exec.exitcode = 0
\* the JSON document on its stdout
DetectDoc == call.exec.stdout.body.j

\* the JSON shape of one Artifact: null or an object whose paths (if any) map
\* roles to lists of strings and whose configs (if any) are an object
IsStringDoc(j) == j.k \in {"str", "null"}
IsStringListDoc(j) ==
    j.k = "null" \/ (j.k = "arr" /\ \A i \in 1..Len(j.l) : IsStringDoc(j.l[i]))
IsPathsDoc(j) ==
    j.k = "null" \/ (j.k = "obj" /\ \A role \in DOMAIN j.o : IsStringListDoc(j.o[role]))
IsArtifactDoc(j) ==
    \/ j.k = "null"
    \/ /\ j.k = "obj"
       /\ "paths" \in DOMAIN j.o => IsPathsDoc(j.o["paths"])
       /\ "configs" \in DOMAIN j.o => j.o["configs"].k \in {"null", "obj"}
IsArtifactListDoc(j) ==
    j.k = "null" \/ (j.k = "arr" /\ \A i \in 1..Len(j.l) : IsArtifactDoc(j.l[i]))
\* the full shape: mapping(serviceName -> list of Artifact)
IsServiceMappingDoc(j) ==
    j.k = "obj" /\ \A sn \in DOMAIN j.o : IsArtifactListDoc(j.o[sn])

RECURSIVE SameValue(_, _)
\* the opaque Go value g has the structure and the leaves of JSON document j
SameValue(g, j) ==
    CASE j.k = "null" -> g = Nil
      [] j.k = "num"  -> g.k = "num" /\ g.n = j.n
      [] j.k = "str"  -> g.k = "str" /\ g.s = j.s
      [] j.k = "arr"  -> /\ g.k = "slice"
                         /\ Len(g.l) = Len(j.l)
                         /\ \A i \in 1..Len(j.l) : SameValue(g.l[i], j.l[i])
      [] j.k = "obj"  -> /\ g.k = "map"
                         /\ DOMAIN g.m = DOMAIN j.o
                         /\ \A key \in DOMAIN j.o : SameValue(g.m[key], j.o[key])

\* a path mapping {serviceDir: [dir]} and nothing else
OnlyServiceDir(paths, dir) ==
    /\ paths.k = "map"
    /\ DOMAIN paths.m = {ServiceDirPathType}
    /\ paths.m[ServiceDirPathType].k = "slice"
    /\ paths.m[ServiceDirPathType].l = <<dir>>

(***************************************************************************)
(* C1  Detect fallback: when the detect command runs without exec error,   *)
(* exits 0 and writes a JSON object O that is not a                        *)
(* mapping(serviceName -> list of Artifact), DirectoryDetect returns no    *)
(* error and exactly one service, named "", holding exactly one artifact   *)
(* whose paths are {serviceDir: [dir]} and whose TemplateConfig is O.      *)
(***************************************************************************)
C1_FallbackCase ==
    /\ DetectSucceeded
    /\ IsJSON(call.exec.stdout)
    /\ DetectDoc.k = "obj"
    /\ ~IsServiceMappingDoc(DetectDoc)

C1_DetectFallback ==
    C1_FallbackCase =>
        /\ ret.err = "nil"
        /\ ret.services.k = "map"
        /\ DOMAIN ret.services.m = {""}
        /\ ret.services.m[""].k = "slice"
        /\ Len(ret.services.m[""].l) = 1
        /\ LET a == ret.services.m[""].l[1]
           IN  /\ OnlyServiceDir(a.Paths, call.dir)
               /\ a.Configs.k = "map"
               /\ DOMAIN a.Configs.m = {TemplateConfigType}
               /\ SameValue(a.Configs.m[TemplateConfigType], DetectDoc)

\* an object with one well-formed service and one member that is no list
C1_Witness ==
    /\ C1_FallbackCase
    /\ DOMAIN DetectDoc.o = {"web", ""}
    /\ IsArtifactListDoc(DetectDoc.o["web"])
    /\ DetectDoc.o["web"].k = "arr"
    /\ DetectDoc.o[""].k = "num"

(***************************************************************************)
(* C2  Default path injection: after a successful DirectoryDetect(dir)     *)
(* whose command emitted the full shape, every emitted artifact with an    *)
(* empty path mapping is returned with paths {serviceDir: [dir]} and every *)
(* emitted artifact with a non-empty path mapping keeps its paths.         *)
(***************************************************************************)
C2_FullShapeCase ==
    /\ DetectSucceeded
    /\ IsJSON(call.exec.stdout)
    /\ IsServiceMappingDoc(DetectDoc)

\* the artifact document carries no path role at all
EmptyPathsDoc(j) ==
    \/ j.k = "null"
    \/ "paths" \notin DOMAIN j.o
    \/ j.o["paths"].k = "null"
    \/ DOMAIN j.o["paths"].o = {}

\* the returned list for a role is the emitted list of strings
SamePathList(g, j) ==
    IF j.k = "null" THEN g = Nil
    ELSE /\ g.k = "slice"
         /\ Len(g.l) = Len(j.l)
         /\ \A i \in 1..Len(j.l) :
              g.l[i] = (IF j.l[i].k = "str" THEN j.l[i].s ELSE EmptyStr)

\* the returned paths are the emitted paths object
SamePaths(g, j) ==
    /\ g.k = "map"
    /\ DOMAIN g.m = DOMAIN j.o
    /\ \A role \in DOMAIN j.o : SamePathList(g.m[role], j.o[role])

C2_DefaultPathInjection ==
    C2_FullShapeCase =>
        /\ ret.err = "nil"
        /\ ret.services.k = "map"
        /\ DOMAIN ret.services.m = DOMAIN DetectDoc.o
        /\ \A sn \in DOMAIN DetectDoc.o :
             LET emitted  == DetectDoc.o[sn]
                 returned == ret.services.m[sn]
             IN  IF emitted.k = "null" THEN returned = Nil
                 ELSE /\ returned.k = "slice"
                      /\ Len(returned.l) = Len(emitted.l)
                      /\ \A i \in 1..Len(emitted.l) :
                           IF EmptyPathsDoc(emitted.l[i])
                           THEN OnlyServiceDir(returned.l[i].Paths, call.dir)
                           ELSE SamePaths(returned.l[i].Paths, emitted.l[i].o["paths"])

\* one service with an artifact whose paths object is empty, {}, next to one
\* that names its own directory
C2_Witness ==
    /\ C2_FullShapeCase
    /\ "web" \in DOMAIN DetectDoc.o
    /\ DetectDoc.o["web"].k = "arr"
    /\ Len(DetectDoc.o["web"].l) = 2
    /\ LET first  == DetectDoc.o["web"].l[1]
           second == DetectDoc.o["web"].l[2]
       IN  /\ first.k = "obj" /\ "paths" \in DOMAIN first.o
           /\ first.o["paths"].k = "obj" /\ DOMAIN first.o["paths"].o = {}
           /\ ~EmptyPathsDoc(second)
           /\ DOMAIN second.o["paths"].o = {ServiceDirPathType}
           /\ Len(second.o["paths"].o[ServiceDirPathType].l) = 1
    /\ OnlyServiceDir(ret.services.m["web"].l[1].Paths, call.dir)
    /\ ~OnlyServiceDir(ret.services.m["web"].l[2].Paths, call.dir)

(***************************************************************************)
(* C3  No detect command: whenever no detect command is configured,        *)
(* DirectoryDetect returns an empty result and no error and passes no      *)
(* command to Exec, for any directory and after any earlier calls.         *)
(***************************************************************************)
C3_NoDetectCommand ==
    (call.op = "DirectoryDetect" /\ ExecConfig.DirectoryDetectCMD = Nil) =>
        /\ ret.services = Nil
        /\ ret.err = "nil"
        /\ ret.execs = << >>

\* the environment would have answered with a full detect result
C3_Witness ==
    /\ call.op = "DirectoryDetect"
    /\ ExecConfig.DirectoryDetectCMD = Nil
    /\ ExecConfig.TransformCMD # Nil
    /\ call.exec.err = "nil" /\ call.exec.exitcode = 0
    /\ IsJSON(call.exec.stdout)
    /\ IsServiceMappingDoc(DetectDoc)
    /\ DOMAIN DetectDoc.o # {}
    /\ ret.services = Nil

(***************************************************************************)
(* Vocabulary of the Transform properties.                                 *)
(***************************************************************************)
\* a Transform call has returned (it did not end in a panic)
TransformReturned == call.op = "Transform" /\ ~ret.panicked
\* ... with no transform command configured
TemplateModeReturned == TransformReturned /\ ExecConfig.TransformCMD = Nil
\* ... with a transform command configured: call.exec[i] is what Exec gave
\* back for call.newArtifacts[i]
CommandModeReturned == TransformReturned /\ ExecConfig.TransformCMD # Nil

\* the artifact's serviceDir paths
ServiceDirs(a) == Elems(MapGet(a.Paths, ServiceDirPathType, Nil))
\* the artifact's first serviceDir path can be made relative to the source root
Relativizable(a) == Len(ServiceDirs(a)) > 0 /\ ~Rel(Env.Source, ServiceDirs(a)[1]).err

RECURSIVE RelativizableFrom(_, _)
\* the indices i..Len(arts) of the artifacts that are Relativizable, in order
RelativizableFrom(arts, i) ==
    IF i > Len(arts) THEN << >>
    ELSE (IF Relativizable(arts[i]) THEN <<i>> ELSE << >>) \o RelativizableFrom(arts, i + 1)

(***************************************************************************)
(* C4  Template fallback count: with no transform command, Transform       *)
(* returns, for the n artifacts whose serviceDir path can be made relative *)
(* to the source root, exactly 2n path mappings, a template mapping        *)
(* followed by a source mapping per artifact in input order; the other     *)
(* artifacts contribute nothing; no artifact is created, the error is nil  *)
(* and no command is passed to Exec.                                       *)
(***************************************************************************)
C4_TemplateFallbackCount ==
    TemplateModeReturned =>
        LET arts == call.newArtifacts
            K    == RelativizableFrom(arts, 1)
            pm   == ret.pathMappings
        IN  /\ Len(pm) = 2 * Len(K)
            /\ \A j \in 1..Len(K) :
                 /\ pm[2 * j - 1].Type = TemplatePathMappingType
                 /\ pm[2 * j - 1].DestPath =
                      Join(DefaultSourceDir, Rel(Env.Source, ServiceDirs(arts[K[j]])[1]).path)
                 /\ pm[2 * j].Type = SourcePathMappingType
            /\ ret.createdArtifacts = << >>
            /\ ret.err = "nil"
            /\ ret.execs = << >>

\* two artifacts with different relative paths give four mappings
C4_Witness ==
    /\ TemplateModeReturned
    /\ Len(call.newArtifacts) = 2
    /\ RelativizableFrom(call.newArtifacts, 1) = <<1, 2>>
    /\ Len(ret.pathMappings) = 4
    /\ ret.pathMappings[1].DestPath # ret.pathMappings[3].DestPath

\* an artifact whose path cannot be made relative, before one whose path can
C4_SkipWitness ==
    /\ TemplateModeReturned
    /\ Len(call.newArtifacts) = 2
    /\ RelativizableFrom(call.newArtifacts, 1) = <<2>>
    /\ Len(ret.pathMappings) = 2

(***************************************************************************)
(* C5  Skip-on-bad-exit: an artifact whose transform command exits         *)
(* non-zero contributes no path mapping and no created artifact, whatever  *)
(* the command wrote: Transform returns what it returns for the list       *)
(* without those artifacts, and returns a nil error.                       *)
(***************************************************************************)
BadExit(r) == r.err = "nil" /\ r.exitcode # 0

RECURSIVE WithoutBadExit(_, _)
\* the elements of s whose Exec result (in answers, same index) is no bad exit
WithoutBadExit(s, answers) ==
    IF s = << >> THEN << >>
    ELSE (IF BadExit(Head(answers)) THEN << >> ELSE <<Head(s)>>)
            \o WithoutBadExit(Tail(s), Tail(answers))

C5_SkipOnBadExit ==
    CommandModeReturned =>
        LET rest == Transform(WithoutBadExit(call.newArtifacts, call.exec),
                              WithoutBadExit(call.exec, call.exec))
        IN  /\ ret.pathMappings = rest.pathMappings
            /\ ret.createdArtifacts = rest.createdArtifacts
            /\ ret.err = "nil"
            /\ (\A i \in 1..Len(call.exec) : BadExit(call.exec[i]))
                  => ret.pathMappings = << >> /\ ret.createdArtifacts = << >>

\* a command that exits non-zero after writing a well-formed TransformOutput,
\* next to one that succeeds
C5_Witness ==
    /\ CommandModeReturned
    /\ Len(call.exec) = 2
    /\ BadExit(call.exec[1])
    /\ call.exec[1].stdout = Text(FALSE, JsonBody(RoundTripDoc))
    /\ call.exec[2] = ExecResult("nil", 0, Text(TRUE, JsonBody(RoundTripDoc)))
    /\ Len(ret.pathMappings) = 1

(***************************************************************************)
(* C6  Transform never fails as a whole: with a transform command          *)
(* configured, for any list of artifacts and any outcomes of the command,  *)
(* Transform returns a nil error, the command is invoked for every         *)
(* artifact of the list, and the artifacts whose Exec failed contribute    *)
(* nothing.                                                                *)
(***************************************************************************)
ExecError(r) == r.err # "nil"

RECURSIVE WithoutExecError(_, _)
WithoutExecError(s, answers) ==
    IF s = << >> THEN << >>
    ELSE (IF ExecError(Head(answers)) THEN << >> ELSE <<Head(s)>>)
            \o WithoutExecError(Tail(s), Tail(answers))

C6_TransformNeverFails ==
    (call.op = "Transform" /\ ExecConfig.TransformCMD # Nil) =>
        /\ ~ret.panicked
        /\ ret.err = "nil"
        /\ Len(ret.execs) = Len(call.newArtifacts)
        /\ LET rest == Transform(WithoutExecError(call.newArtifacts, call.exec),
                                 WithoutExecError(call.exec, call.exec))
           IN  /\ ret.pathMappings = rest.pathMappings
               /\ ret.createdArtifacts = rest.createdArtifacts

(***************************************************************************)
(* C7  Transform aggregation: the pathMappings and createdArtifacts        *)
(* Transform returns are the concatenation, in input order and with        *)
(* duplicates kept, of what the command of each artifact emitted when it   *)
(* ran without exec error and exited 0; one artifact whose command emits   *)
(* the round-trip document gives exactly its one mapping and no artifact.  *)
(***************************************************************************)
\* the member of the command's output document, if it is a list
EmittedList(r, member) ==
    IF /\ r.err = "nil" /\ r.exitcode = 0
       /\ IsJSON(r.stdout)
       /\ r.stdout.body.j.k = "obj"
       /\ member \in DOMAIN r.stdout.body.j.o
       /\ r.stdout.body.j.o[member].k = "arr"
    THEN r.stdout.body.j.o[member].l
    ELSE << >>

EmittedMappings(r) ==
    LET l == EmittedList(r, "pathMappings")
    IN  [i \in 1..Len(l) |-> DecodePathMapping(l[i]).v]

EmittedArtifacts(r) ==
    LET l == EmittedList(r, "createdArtifacts")
    IN  [i \in 1..Len(l) |-> DecodeArtifact(l[i]).v]

RECURSIVE AllMappings(_)
AllMappings(answers) ==
    IF answers = << >> THEN << >>
    ELSE EmittedMappings(Head(answers)) \o AllMappings(Tail(answers))

RECURSIVE AllArtifacts(_)
AllArtifacts(answers) ==
    IF answers = << >> THEN << >>
    ELSE EmittedArtifacts(Head(answers)) \o AllArtifacts(Tail(answers))

C7_TransformAggregation ==
    CommandModeReturned =>
        /\ ret.pathMappings = AllMappings(call.exec)
        /\ ret.createdArtifacts = AllArtifacts(call.exec)
        /\ (/\ Len(call.exec) = 1
            /\ call.exec[1].err = "nil" /\ call.exec[1].exitcode = 0
            /\ call.exec[1].stdout.body = JsonBody(RoundTripDoc))
              => /\ ret.pathMappings =
                      << [Type |-> <<"source">>, SrcPath |-> EmptyStr,
                          DestPath |-> <<"/", "out">>, TemplateConfig |-> Nil] >>
                 /\ ret.createdArtifacts = << >>

\* two commands succeed: the first emits the same mapping twice and an
\* artifact, the second the round-trip mapping
C7_Witness ==
    /\ CommandModeReturned
    /\ Len(call.exec) = 2
    /\ call.exec[1] = ExecResult("nil", 0, Text(FALSE, JsonBody(DuplicatesDoc)))
    /\ call.exec[2] = ExecResult("nil", 0, Text(TRUE, JsonBody(RoundTripDoc)))
    /\ Len(ret.pathMappings) = 3
    /\ ret.pathMappings[1] = ret.pathMappings[2]
    /\ ret.pathMappings[3].DestPath = <<"/", "out">>
    /\ Len(ret.createdArtifacts) = 1

(***************************************************************************)
(* C8  Errors escaping detect: the only error DirectoryDetect returns is   *)
(* EnvironmentNotActive; when Exec fails with another error it returns an  *)
(* empty result and no error.                                              *)
(***************************************************************************)
C8_OnlyNotActiveEscapes ==
    DetectRan =>
        /\ ret.err = "nil" \/ IsEnvironmentNotActive(ret.err)
        /\ call.exec.err = "other" => (ret.services = Nil /\ ret.err = "nil")

(***************************************************************************)
(* C9  Detect exit-code contract: when the detect command runs without     *)
(* exec error and exits non-zero, DirectoryDetect returns an empty result  *)
(* and a nil error, whatever the command wrote to stdout.                  *)
(***************************************************************************)
C9_DetectExitCode ==
    (DetectRan /\ call.exec.err = "nil" /\ call.exec.exitcode # 0) =>
        /\ ret.services = Nil
        /\ ret.err = "nil"

\* the command wrote a full detect result before exiting non-zero
C9_Witness ==
    /\ DetectRan
    /\ call.exec.err = "nil" /\ call.exec.exitcode # 0
    /\ IsJSON(call.exec.stdout)
    /\ IsServiceMappingDoc(DetectDoc)
    /\ DOMAIN DetectDoc.o # {}
    /\ ret.services = Nil

(***************************************************************************)
(* C10  Detect on an inactive environment: when Exec of the detect command *)
(* fails with EnvironmentNotActive, DirectoryDetect returns that error,    *)
(* matchable as EnvironmentNotActive, and no services.                     *)
(***************************************************************************)
C10_DetectNotActive ==
    (DetectRan /\ IsEnvironmentNotActive(call.exec.err)) =>
        /\ IsEnvironmentNotActive(ret.err)
        /\ ret.services = Nil

C10_Witness ==
    /\ DetectRan
    /\ IsEnvironmentNotActive(call.exec.err)
    /\ ret.execs = << AppendArg(ExecConfig.DirectoryDetectCMD, call.dir) >>
    /\ ret.err # "nil"

(***************************************************************************)
(* C11  Platform prerequisite: when the host OS is not among the           *)
(* configured platforms and no container image is declared, Init returns   *)
(* an error and creates no Environment; when the host OS is listed or an   *)
(* image is declared, Init does not fail for the platform.                 *)
(***************************************************************************)
InitReturned == call.op = "Init"

\* what the plugin configuration declares
HostSupported == IsPresent(call.tc.yaml.Platforms, GOOS)
ImageDeclared == call.tc.yaml.Container.Image # ""

C11_PlatformPrerequisite ==
    InitReturned =>
        /\ (~HostSupported /\ ~ImageDeclared) => (ret.err # "nil" /\ Env = Nil)
        /\ (HostSupported \/ ImageDeclared) => ret.err # "platform"
        /\ (call.tc.parses /\ Env = Nil /\ ret.err # "environment")
               => (~HostSupported /\ ~ImageDeclared)

\* a well-formed configuration for another OS, without an image
C11_Witness ==
    /\ InitReturned
    /\ call.tc.parses
    /\ ~HostSupported /\ ~ImageDeclared
    /\ call.tc.yaml.Platforms # << >>
    /\ ret.err = "platform"

(***************************************************************************)
(* C12  One-time engine discovery under concurrency: in any interleaving   *)
(* of concurrent GetContainerEngine callers the operator is asked at most  *)
(* once, the container engine is initialised at most once, and all callers *)
(* are returned the same engine value.                                     *)
(***************************************************************************)
C12_OneTimeDiscovery ==
    /\ queries <= 1
    /\ attempts <= 1
    /\ \A c, d \in Callers :
         (got[c] # Pending /\ got[d] # Pending) => got[c] = got[d]

(***************************************************************************)
(* C13  Declined containers: when the operator declines, every             *)
(* GetContainerEngine call returns no engine, backend discovery is never   *)
(* attempted, the process is never ended, and every IsDisabled call made   *)
(* after a GetContainerEngine call has returned gives true.                *)
(***************************************************************************)
Declined == answer = "no"

C13_DeclinedContainers ==
    Declined =>
        /\ \A c \in Callers : got[c] \in {Pending, Nil}
        /\ attempts = 0
        /\ \A c \in Callers : pc[c] \notin {"discover", "verify", "fatal"}
        /\ ~exited
        /\ (isDisabledRet.made /\ isDisabledRet.after) => isDisabledRet.v

\* both callers asked the operator, both have returned, and IsDisabled was
\* called afterwards
C13_Witness ==
    /\ Declined
    /\ queries = 2
    /\ \A c \in Callers : got[c] = Nil
    /\ isDisabledRet.made /\ isDisabledRet.after /\ isDisabledRet.v

(***************************************************************************)
(* C14  Fatal on missing backend: when the operator has allowed            *)
(* containers, no GetContainerEngine call returns an absent engine, and a  *)
(* caller whose backend discovery gave an error never gets past            *)
(* initContainerEngine.                                                    *)
(***************************************************************************)
Allowed == answer = "yes"

C14_FatalOnMissingBackend ==
    Allowed =>
        /\ \A c \in Callers : got[c] # Nil
        /\ \A c \in Callers : initErr[c] => pc[c] \in {"verify", "fatal"}

(***************************************************************************)
(* C15  Malformed detect output contributes nothing: when the detect       *)
(* command exits 0 and its trimmed stdout is no JSON document (empty       *)
(* output included), DirectoryDetect returns no service, no artifact and   *)
(* no error.                                                               *)
(***************************************************************************)
MalformedDetectOutput ==
    /\ DetectRan
    /\ call.exec.err = "nil" /\ call.exec.exitcode = 0
    /\ ~IsJSON(TrimSpace(call.exec.stdout))

C15_MalformedDetectOutput ==
    MalformedDetectOutput =>
        /\ MapLen(ret.services) = 0
        /\ ret.err = "nil"

(***************************************************************************)
(* C16  Transform parse failure contributes nothing: an artifact whose     *)
(* command exits 0 with a stdout that json.Unmarshal reports an error for  *)
(* (text that is no JSON, or a document that decodes partly) adds no path  *)
(* mapping and no created artifact, and the other artifacts are processed: *)
(* Transform returns what it returns for the list without those artifacts. *)
(***************************************************************************)
ParseFailed(r) ==
    /\ r.err = "nil" /\ r.exitcode = 0
    /\ UnmarshalTransformOutput(TrimSpace(r.stdout)).err

RECURSIVE WithoutParseFailed(_, _)
\* the elements of s whose Exec result (in answers, same index) parsed
WithoutParseFailed(s, answers) ==
    IF s = << >> THEN << >>
    ELSE (IF ParseFailed(Head(answers)) THEN << >> ELSE <<Head(s)>>)
            \o WithoutParseFailed(Tail(s), Tail(answers))

C16_ParseFailureContributesNothing ==
    CommandModeReturned =>
        LET rest == Transform(WithoutParseFailed(call.newArtifacts, call.exec),
                              WithoutParseFailed(call.exec, call.exec))
        IN  /\ ret.pathMappings = rest.pathMappings
            /\ ret.createdArtifacts = rest.createdArtifacts
            /\ Len(ret.execs) = Len(call.newArtifacts)

(***************************************************************************)
(* C17  Init fails fast with no partial state: when Init returns an error  *)
(* the Executable is as it was before the call (Config, ExecConfig and Env *)
(* as constructed) and it is not Initialized.                              *)
(***************************************************************************)
C17_InitNoPartialState ==
    (InitReturned /\ ret.err # "nil") =>
        /\ Config = Nil
        /\ ExecConfig = Nil
        /\ Env = Nil
        /\ phase # "Initialized"

(***************************************************************************)
(* C18  One appended argument, command unchanged: every command line       *)
(* passed to Exec is the declared command followed by one more token, dir  *)
(* for detect and the artifact's first serviceDir path for transform, and  *)
(* after any calls the configured commands are those loaded at Init.       *)
(***************************************************************************)
\* the token after the declared command
ExtraToken(cmd, line) ==
    /\ Len(line) = Len(Elems(cmd)) + 1
    /\ SubSeq(line, 1, Len(Elems(cmd))) = Elems(cmd)

C18_OneAppendedArgument ==
    /\ phase = "Initialized" =>
          /\ ExecConfig.DirectoryDetectCMD = Config.yaml.DirectoryDetectCMD
          /\ ExecConfig.TransformCMD = Config.yaml.TransformCMD
    /\ DetectRan =>
          \A i \in 1..Len(ret.execs) :
              /\ ExtraToken(Config.yaml.DirectoryDetectCMD, ret.execs[i])
              /\ ret.execs[i][Len(ret.execs[i])] = call.dir
    /\ (call.op = "Transform" /\ ExecConfig.TransformCMD # Nil) =>
          \A i \in 1..Len(ret.execs) :
              /\ ExtraToken(Config.yaml.TransformCMD, ret.execs[i])
              /\ Len(ServiceDirs(call.newArtifacts[i])) > 0 =>
                    ret.execs[i][Len(ret.execs[i])] = ServiceDirs(call.newArtifacts[i])[1]
    /\ (call.op = "Transform" /\ ExecConfig.TransformCMD = Nil) => ret.execs = << >>
    /\ (call.op = "DirectoryDetect" /\ ExecConfig.DirectoryDetectCMD = Nil) => ret.execs = << >>

\* a transform call of two artifacts on a plugin that declares both commands
C18_Witness ==
    /\ call.op = "Transform" /\ ExecConfig.TransformCMD # Nil
    /\ ExecConfig.DirectoryDetectCMD # Nil
    /\ Len(ret.execs) = 2
    /\ ret.execs[1] = <<<<"transform.sh">>, <<"--json">>, <<"/", "other", "x">>>>
    /\ call.newArtifacts[2] = ArtifactInRoot

(***************************************************************************)
(* C19  Absent service directory in command mode: with a transform command *)
(* configured, for every artifact without a first serviceDir path (no      *)
(* paths, no serviceDir role, or an empty serviceDir list) the command is  *)
(* invoked with the empty string appended, and every artifact of the list  *)
(* is processed.                                                           *)
(***************************************************************************)
C19_AbsentServiceDir ==
    (call.op = "Transform" /\ ExecConfig.TransformCMD # Nil) =>
        /\ Len(ret.execs) = Len(call.newArtifacts)
        /\ \A i \in 1..Len(ret.execs) :
             Len(ServiceDirs(call.newArtifacts[i])) = 0 =>
                 ret.execs[i] = AppendArg(ExecConfig.TransformCMD, EmptyStr)

(***************************************************************************)
(* C20  Template-fallback skip is artifact-scoped: with no transform       *)
(* command, for any list of artifacts, those for which no relative path    *)
(* can be computed (no serviceDir path, or a path outside the source root) *)
(* are skipped without ending Transform, and each of the others            *)
(* contributes its template and source mapping.                            *)
(***************************************************************************)
C20_TemplateSkipIsArtifactScoped ==
    (call.op = "Transform" /\ ExecConfig.TransformCMD = Nil) =>
        LET K == RelativizableFrom(call.newArtifacts, 1)
        IN  /\ ~ret.panicked
            /\ Len(ret.pathMappings) = 2 * Len(K)
            /\ \A j \in 1..Len(K) :
                 /\ ret.pathMappings[2 * j - 1].Type = TemplatePathMappingType
                 /\ ret.pathMappings[2 * j].Type = SourcePathMappingType

=============================================================================
